---- MODULE Spec2Model ----
(***************************************************************************)
(* Model of the boss attack controller hook useBossAttackController of     *)
(* BossAttackController.jsx: the boss health ledger, the four-phase attack *)
(* cycle, its setTimeout timers and the closures those timers capture.     *)
(*                                                                         *)
(* Time is kept relative: every pending timer carries the milliseconds     *)
(* left until it is due, and Tick lets time pass up to the next due time.  *)
(*                                                                         *)
(* A React callback created by useCallback keeps the variables of the      *)
(* render that created it.  startAttack is re-created only when            *)
(* playerIsInvulnerable or onPlayerHit change, and the timer callbacks it  *)
(* arms call the scheduleNextAttack of that same render, whose timer calls *)
(* that same startAttack again.  A running cycle therefore keeps the       *)
(* playerIsInvulnerable and currentHP values of one render; the model      *)
(* carries them with each timer as the fields inv and hp.                  *)
(***************************************************************************)
EXTENDS Integers, Sequences, FiniteSets, TLC

VARIABLES
    life,                 \* "created" (rendered, effects not run), "mounted", "unmounted"
    bossLevel,            \* prop bossLevel
    maxHP,                \* prop maxHP
    playerIsInvulnerable, \* prop playerIsInvulnerable, as of the latest render
    currentHP,            \* useState currentHP
    phase,                \* useState phase
    currentAttack,        \* useState currentAttack: an attack id, or "none" for null
    isHit,                \* useState isHit
    saInv,                \* playerIsInvulnerable captured by the memoized startAttack
    saHP,                 \* currentHP captured by the scheduleNextAttack that startAttack calls
    attackTimer,          \* the timeout held by attackTimerRef
    phaseTimer,           \* the timeout held by phaseTimerRef
    hitChecks,            \* the pending hit check timeouts (their ids are not kept)
    flashTimers,          \* the pending isHit reset timeouts (their ids are not kept)
    phaseElapsed,         \* Date.now() - attackStartTimeRef.current while an attack runs
    cycleElapsed,         \* milliseconds since the running attack entered telegraph
    callback,             \* the prop callback invoked by the latest step, if any
    bossDefeatedCalls,    \* number of onBossDefeated invocations so far (saturating)
    hitsInPhase,          \* onPlayerHit invocations since executing was last entered (saturating)
    calls,                \* number of calls made from outside so far
    lastCall,             \* the call from outside that the latest step was, if any
    strayTimers,          \* pending attack and phase timeouts whose id no ref holds any more
    attackProgress,       \* useState attackProgress, a fraction [num, den]
    currentPhaseDuration, \* currentPhaseDurationRef.current
    tally,                \* selectRandomAttack applied over the draws of one pool, counted
    delays,               \* the applications of calculateNextAttackDelay made so far
    pick,                 \* the latest single application of selectRandomAttack
    custom                \* a catalog with another UNIQUE_ATTACKS table, and its use

\* the state of the hook
hookVars == <<life, bossLevel, maxHP, playerIsInvulnerable, currentHP, phase,
              currentAttack, isHit, saInv, saHP, attackTimer, phaseTimer,
              hitChecks, flashTimers, phaseElapsed, cycleElapsed, callback,
              bossDefeatedCalls, hitsInPhase, calls, lastCall, strayTimers,
              attackProgress, currentPhaseDuration>>

vars == <<hookVars, tally, delays, pick, custom>>

----------------------------------------------------------------------------
(* Bounds of the model *)

MaxFlash == 2             \* pending isHit reset timeouts
MaxCalls == 2             \* the invocation counters saturate here
MaxCallsFromOutside == 4  \* renders by the parent, damageBoss, forceAttack, weak point hits
MaxOverheal == 50         \* health above maxHP that a negative amount may reach
MaxCatalogCalls == 1      \* calls from outside in the runs over all boss levels
CellsPerUnit == 2         \* cells of the draw range per unit of weight
MaxDelays == 2            \* applications of calculateNextAttackDelay recorded
MaxFrameCalls == 2        \* calls from outside in the runs with render ticks
MaxCycleCalls == 2        \* calls from outside in the runs of the attack cycle
MaxWeight == 2            \* largest weight in the weight lists of single selections
MaxCustomLevel == 2       \* largest boss level in the other UNIQUE_ATTACKS tables
MaxCustomEntries == 3     \* entries of UNIQUE_ATTACKS the other tables are made of

BossLevels == {1, 8}                  \* level 8 has no unique attack
MaxHPValues == {150}                  \* values of the prop maxHP
DamageAmounts == {-50, 0, 50, 150}    \* arguments of damageBoss
DrawsPerUnit == 2                     \* Math.random() * totalWeight in steps of 1/2
\* arguments of forceAttack: a common attack, a unique attack, a key the
\* registry does not have and a key it inherits
ForcedIds == {"missile_barrage", "solar_flare", "no_such_attack", "constructor"}

----------------------------------------------------------------------------
(* Constants and configuration *)

DAMAGE_FLASH_DURATION == 150
ATTACK_INTERVAL_MIN == 3000
ATTACK_INTERVAL_MAX == 6000

\* values of MathUtils.randFloat(ATTACK_INTERVAL_MIN, ATTACK_INTERVAL_MAX)
BaseDelayDraws == {ATTACK_INTERVAL_MIN, ATTACK_INTERVAL_MAX}

IDLE == "idle"
TELEGRAPH == "telegraph"
EXECUTING == "executing"
RECOVERY == "recovery"
ATTACK_PHASE == {IDLE, TELEGRAPH, EXECUTING, RECOVERY}

Atk(id, type, level, damage, t, e, r) ==
    [id |-> id, type |-> type, bossLevel |-> level, damage |-> damage,
     telegraphDuration |-> t, executeDuration |-> e, recoveryDuration |-> r]

\* bossLevel 0 stands for the absent bossLevel field of a common attack
COMMON_ATTACKS ==
    << Atk("sweeping_laser", "common", 0, 25, 1200, 1800, 800),
       Atk("missile_barrage", "common", 0, 15, 1500, 2500, 1000) >>

UNIQUE_ATTACKS ==
    << Atk("stomp_shockwave", "unique", 1, 40, 1800, 1200, 1500),
       Atk("debris_storm", "unique", 2, 20, 2000, 3000, 800),
       Atk("cryo_blast", "unique", 3, 35, 1400, 1600, 1200),
       Atk("solar_flare", "unique", 4, 50, 2200, 1000, 2000),
       Atk("toxic_spray", "unique", 5, 30, 1600, 2200, 900),
       Atk("system_corruption", "unique", 6, 45, 1000, 2800, 1100),
       Atk("andross_wrath", "unique", 7, 60, 2500, 3500, 1500) >>

AllAttacks == COMMON_ATTACKS \o UNIQUE_ATTACKS

AttackIds == {AllAttacks[i].id : i \in 1..Len(AllAttacks)}

\* ATTACK_REGISTRY[id]; a later entry with the same id replaces an earlier one
ATTACK_REGISTRY ==
    [id \in AttackIds |->
        LET idx == {i \in 1..Len(AllAttacks) : AllAttacks[i].id = id}
            last == CHOOSE i \in idx : \A j \in idx : j <= i
        IN AllAttacks[last]]

\* ATTACK_REGISTRY is a plain object: a key it does not own is looked up in
\* Object.prototype
ObjectPrototypeKeys == {"constructor", "toString", "valueOf", "hasOwnProperty"}

\* a member of Object.prototype read as an attack: every field of an attack
\* is undefined.  setTimeout takes an undefined or NaN delay as 0; damage 0
\* stands for undefined.
inheritedMember(key) == Atk(key, "undefined", 0, 0, 0, 0, 0)

\* ATTACK_REGISTRY[attackId] is truthy
registryHas(attackId) == attackId \in AttackIds \cup ObjectPrototypeKeys

\* ATTACK_REGISTRY[attackId], where registryHas(attackId)
registryLookup(attackId) ==
    IF attackId \in AttackIds THEN ATTACK_REGISTRY[attackId]
    ELSE inheritedMember(attackId)

----------------------------------------------------------------------------
(* Utility functions *)

Max(a, b) == IF a >= b THEN a ELSE b
Min(a, b) == IF a <= b THEN a ELSE b

\* a mutant of getAttacksForBoss: no unique attack is found
getAttacksForBossCommonOnly(level) == COMMON_ATTACKS

\* a mutant of getAttacksForBoss: the unique attack is the first of the
\* catalog whatever the level
getAttacksForBossFirstUnique(level) == COMMON_ATTACKS \o <<UNIQUE_ATTACKS[1]>>

\* getAttacksForBoss with every unique attack in the pool
getAttacksForBossAllUnique(level) == COMMON_ATTACKS \o UNIQUE_ATTACKS

\* getAttacksForBoss(level).all: find() returns the first match in object order
getAttacksForBoss(level) ==
    LET idx == {i \in 1..Len(UNIQUE_ATTACKS) : UNIQUE_ATTACKS[i].bossLevel = level}
    IN IF idx = {} THEN COMMON_ATTACKS
       ELSE LET first == CHOOSE i \in idx : \A j \in idx : i <= j
            IN Append(COMMON_ATTACKS, UNIQUE_ATTACKS[first])

\* getAttacksForBoss(level).all over another UNIQUE_ATTACKS table
getAttacksForBossIn(uniqueAttacks, level) ==
    LET idx == {i \in 1..Len(uniqueAttacks) : uniqueAttacks[i].bossLevel = level}
    IN IF idx = {} THEN COMMON_ATTACKS
       ELSE LET first == CHOOSE i \in idx : \A j \in idx : i <= j
            IN Append(COMMON_ATTACKS, uniqueAttacks[first])

RECURSIVE SumTo(_, _)
SumTo(weights, n) == IF n = 0 THEN 0 ELSE SumTo(weights, n - 1) + weights[n]

\* a mutant of selectWalkAt: random is tested before weights[i] is taken off
RECURSIVE selectWalkTestsFirst(_, _, _, _, _)
selectWalkTestsFirst(attacks, weights, num, den, i) ==
    IF i > Len(attacks) THEN Len(attacks)
    ELSE IF num - den * SumTo(weights, i - 1) <= 0 THEN i
    ELSE selectWalkTestsFirst(attacks, weights, num, den, i + 1)

\* a mutant of selectWalkAt: the first attack is returned when the loop
\* selects none
RECURSIVE selectWalkFallsBackToFirst(_, _, _, _, _)
selectWalkFallsBackToFirst(attacks, weights, num, den, i) ==
    IF i > Len(attacks) THEN 1
    ELSE IF num - den * SumTo(weights, i) <= 0 THEN i
    ELSE selectWalkFallsBackToFirst(attacks, weights, num, den, i + 1)

\* the loop of selectRandomAttack(attacks, weights) where
\* Math.random() * totalWeight is num / den: the index of the first attack
\* that brings random to <= 0, the last attack if none does
RECURSIVE selectWalkAt(_, _, _, _, _)
selectWalkAt(attacks, weights, num, den, i) ==
    IF i > Len(attacks) THEN Len(attacks)
    ELSE IF num - den * SumTo(weights, i) <= 0 THEN i
    ELSE selectWalkAt(attacks, weights, num, den, i + 1)

\* the same with Math.random() * totalWeight = draw / DrawsPerUnit
selectWalk(attacks, weights, draw, i) ==
    selectWalkAt(attacks, weights, draw, DrawsPerUnit, i)

selectRandomAttack(attacks, weights, draw) ==
    attacks[selectWalk(attacks, weights, draw, 1)]

\* the weights scheduleNextAttack's timer gives the pool at health hp of mx
attackWeights(pool, hp, mx) ==
    [i \in 1..Len(pool) |->
        IF pool[i].type = "unique" /\ 2 * hp < mx THEN 2 ELSE 1]

\* a mutant of calculateNextAttackDelay: the multiplier is 0.7 at zero
\* health and 1.0 at full health
calculateNextAttackDelayRising(hp, mx, base) ==
    (base * (7 * mx + 3 * hp)) \div (10 * mx)

\* calculateNextAttackDelay(hp / mx) with baseDelay = base, in whole
\* milliseconds as setTimeout takes it
calculateNextAttackDelay(hp, mx, base) ==
    (base * (10 * mx - 3 * hp)) \div (10 * mx)

\* attack.executeDuration * 0.3, in whole milliseconds
hitCheckDelay(attack) == (attack.executeDuration * 3) \div 10

----------------------------------------------------------------------------
(* Timers *)

NoTimer == [armed |-> FALSE, rem |-> 0, step |-> "none", attack |-> "none",
            inv |-> FALSE, hp |-> 0]

Timer(rem, step, attack, inv, hp) ==
    [armed |-> TRUE, rem |-> rem, step |-> step, attack |-> attack,
     inv |-> inv, hp |-> hp]

NoCallback == [name |-> "none", arg |-> 0]

\* arg is the attack id of a forceAttack call, amount the damage of a
\* damageBoss call
NoCall == [op |-> "none", arg |-> "none", amount |-> 0]

Inc(n) == Min(n + 1, MaxCalls)

\* the value num / den of attackProgress
Fraction(num, den) == [num |-> num, den |-> den]

\* the pending timeouts armed by scheduleNextAttack and startAttack
PendingTimers ==
    strayTimers \cup {t \in {attackTimer, phaseTimer} : t.armed}

\* ref.current = setTimeout(...) while timeout t is firing: the timeout old
\* that the ref held, if it is still pending, stays pending and no ref holds
\* its id
displaced(old, t) == IF old.armed /\ old # t THEN {old} ELSE {}

\* the timeouts without a handle after timeout t has fired and a ref that
\* held old was assigned a new timeout
strayAfter(t, old) ==
    (IF t \in {attackTimer, phaseTimer} THEN strayTimers ELSE strayTimers \ {t})
    \cup displaced(old, t)

\* the due times (milliseconds from now) of all pending timeouts
PendingRems ==
    {t.rem : t \in PendingTimers}
    \cup {h.rem : h \in hitChecks}
    \cup {flashTimers[i] : i \in 1..Len(flashTimers)}

----------------------------------------------------------------------------
(* Initial state: the hook has rendered once, its effects have not run *)

InitFor(levels) ==
    /\ life = "created"
    /\ bossLevel \in levels
    /\ maxHP \in MaxHPValues
    /\ playerIsInvulnerable \in BOOLEAN
    /\ currentHP = maxHP
    /\ phase = IDLE
    /\ currentAttack = "none"
    /\ isHit = FALSE
    /\ saInv = playerIsInvulnerable
    /\ saHP = maxHP
    /\ attackTimer = NoTimer
    /\ phaseTimer = NoTimer
    /\ hitChecks = {}
    /\ flashTimers = << >>
    /\ phaseElapsed = 0
    /\ cycleElapsed = 0
    /\ callback = NoCallback
    /\ bossDefeatedCalls = 0
    /\ hitsInPhase = 0
    /\ calls = 0
    /\ lastCall = NoCall
    /\ strayTimers = {}
    /\ attackProgress = Fraction(0, 1)
    /\ currentPhaseDuration = 0

\* no application of the utility functions is being recorded
NoTally == [pool |-> 0, hp |-> 0, next |-> 0, counts |-> << >>]

NoPick == [pool |-> 0, weights |-> << >>, draw |-> 0, index |-> 0,
           id |-> "none"]

NoCustom == [unique |-> << >>, built |-> FALSE, threw |-> FALSE, level |-> 0,
             all |-> << >>]

NoneApplied ==
    tally = NoTally /\ delays = << >> /\ pick = NoPick /\ custom = NoCustom

Init == InitFor(BossLevels) /\ NoneApplied

\* an encounter of any boss level of the catalog, or of a level without a
\* unique attack
InitCatalog == InitFor(1..(Len(UNIQUE_ATTACKS) + 1)) /\ NoneApplied

----------------------------------------------------------------------------
(* Operations *)

\* a mutant of scheduleNextAttack: no timeout is armed
scheduleNextAttackNever(inv, hp, base) == NoTimer

\* scheduleNextAttack() of the render that saw health hp: the timer it arms
scheduleNextAttack(inv, hp, base) ==
    IF hp <= 0 THEN NoTimer
    ELSE Timer(calculateNextAttackDelay(hp, maxHP, base), "attack", "none", inv, hp)

\* the mount effect: scheduleNextAttack() of the first render.
\* scheduleNextAttack assigns attackTimerRef without clearing it, and leaves
\* it alone when it returns at its currentHP <= 0 guard.
Mount ==
    /\ life = "created"
    /\ life' = "mounted"
    /\ \E base \in BaseDelayDraws :
          IF saHP <= 0
          THEN UNCHANGED <<attackTimer, strayTimers>>
          ELSE /\ attackTimer' = scheduleNextAttack(saInv, saHP, base)
               /\ strayTimers' = strayTimers \cup displaced(attackTimer, NoTimer)
    /\ callback' = NoCallback
    /\ lastCall' = NoCall
    /\ UNCHANGED <<tally, delays, pick, custom, attackProgress, currentPhaseDuration,
                   bossLevel, maxHP, playerIsInvulnerable, currentHP, phase,
                   currentAttack, isHit, saInv, saHP, phaseTimer, hitChecks,
                   flashTimers, phaseElapsed, cycleElapsed, bossDefeatedCalls,
                   hitsInPhase, calls>>

\* the effect cleanups: clearTimeout of attackTimerRef and phaseTimerRef
Unmount ==
    /\ life = "mounted"
    /\ life' = "unmounted"
    /\ attackTimer' = NoTimer
    /\ phaseTimer' = NoTimer
    /\ callback' = NoCallback
    /\ lastCall' = NoCall
    /\ UNCHANGED <<tally, delays, pick, custom, strayTimers, attackProgress,
                   currentPhaseDuration,
                   bossLevel, maxHP, playerIsInvulnerable, currentHP, phase,
                   currentAttack, isHit, saInv, saHP, hitChecks, flashTimers,
                   phaseElapsed, cycleElapsed, bossDefeatedCalls, hitsInPhase, calls>>

\* the parent renders the hook again with the prop playerIsInvulnerable = inv;
\* newCb: it passes a new onPlayerHit function.  useCallback re-creates
\* startAttack when either dependency changed.
ParentRender(inv, newCb) ==
    /\ life = "mounted"
    /\ calls < MaxCallsFromOutside
    /\ calls' = calls + 1
    /\ inv # playerIsInvulnerable \/ newCb
    /\ playerIsInvulnerable' = inv
    /\ saInv' = inv
    /\ saHP' = currentHP
    /\ callback' = NoCallback
    /\ lastCall' = [op |-> "render", arg |-> "none", amount |-> 0]
    /\ UNCHANGED <<tally, delays, pick, custom, strayTimers, attackProgress,
                   currentPhaseDuration,
                   life, bossLevel, maxHP, currentHP, phase, currentAttack,
                   isHit, attackTimer, phaseTimer, hitChecks, flashTimers,
                   phaseElapsed, cycleElapsed, bossDefeatedCalls, hitsInPhase>>

\* a mutant of newHP: the clamp at 0 is missing
newHPUnclamped(prev, amount) == prev - amount

\* the updater passed to setCurrentHP: Math.max(0, prev - amount)
newHP(prev, amount) == Max(0, prev - amount)

\* a mutant of applyDamage: the call also drops the pending hit checks
applyDamageDropsChecks(amount, op) ==
    LET hp == newHP(currentHP, amount)
    IN /\ life = "mounted"
       /\ calls < MaxCallsFromOutside
       /\ calls' = calls + 1
       /\ Len(flashTimers) < MaxFlash
       /\ hp <= maxHP + MaxOverheal
       /\ isHit' = TRUE
       /\ hitChecks' = {}
       /\ flashTimers' = Append(flashTimers, DAMAGE_FLASH_DURATION)
       /\ currentHP' = hp
       /\ IF hp <= 0
          THEN /\ callback' = [name |-> "onBossDefeated", arg |-> 0]
               /\ bossDefeatedCalls' = Inc(bossDefeatedCalls)
          ELSE /\ callback' = NoCallback
               /\ UNCHANGED bossDefeatedCalls
       /\ lastCall' = [op |-> op, arg |-> "none", amount |-> amount]
       /\ UNCHANGED <<tally, delays, pick, custom, strayTimers, attackProgress,
                   currentPhaseDuration,
                   life, bossLevel, maxHP, playerIsInvulnerable, phase,
                      currentAttack, saInv, saHP, attackTimer, phaseTimer,
                      phaseElapsed, cycleElapsed, hitsInPhase>>

\* the body of damageBoss(amount), called by op
applyDamage(amount, op) ==
    LET hp == newHP(currentHP, amount)
    IN /\ life = "mounted"
       /\ calls < MaxCallsFromOutside
       /\ calls' = calls + 1
       /\ Len(flashTimers) < MaxFlash
       /\ hp <= maxHP + MaxOverheal
       /\ isHit' = TRUE
       /\ flashTimers' = Append(flashTimers, DAMAGE_FLASH_DURATION)
       /\ currentHP' = hp
       /\ IF hp <= 0
          THEN /\ callback' = [name |-> "onBossDefeated", arg |-> 0]
               /\ bossDefeatedCalls' = Inc(bossDefeatedCalls)
          ELSE /\ callback' = NoCallback
               /\ UNCHANGED bossDefeatedCalls
       /\ lastCall' = [op |-> op, arg |-> "none", amount |-> amount]
       /\ UNCHANGED <<tally, delays, pick, custom, strayTimers, attackProgress,
                   currentPhaseDuration,
                   life, bossLevel, maxHP, playerIsInvulnerable, phase,
                      currentAttack, saInv, saHP, attackTimer, phaseTimer,
                      hitChecks, phaseElapsed, cycleElapsed, hitsInPhase>>

\* damageBoss(amount), called by the code that uses the hook
damageBoss(amount) == applyDamage(amount, "damageBoss")

\* the damage handleWeakPointHit passes to damageBoss
WEAK_POINT_DAMAGE == 50

\* a mutant of handleHit: the weak point is vulnerable in every phase
handleHitAlways == applyDamage(WEAK_POINT_DAMAGE, "handleHit")

\* a click on a weak point of BossFightScene: WeakPoint.handleHit returns
\* unless isVulnerable (phase === RECOVERY), else onHit is
\* handleWeakPointHit, which calls damageBoss(50)
handleHit ==
    IF phase = RECOVERY
    THEN applyDamage(WEAK_POINT_DAMAGE, "handleHit")
    ELSE /\ life = "mounted"
         /\ calls < MaxCallsFromOutside
         /\ calls' = calls + 1
         /\ callback' = NoCallback
         /\ lastCall' = [op |-> "handleHit", arg |-> "none",
                         amount |-> WEAK_POINT_DAMAGE]
         /\ UNCHANGED <<tally, delays, pick, custom, strayTimers, attackProgress,
                   currentPhaseDuration,
                   life, bossLevel, maxHP, playerIsInvulnerable,
                        currentHP, phase, currentAttack, isHit, saInv, saHP,
                        attackTimer, phaseTimer, hitChecks, flashTimers,
                        phaseElapsed, cycleElapsed, bossDefeatedCalls,
                        hitsInPhase>>

\* a mutant of recoveryTimer: armed with the execute duration
recoveryTimerWrongDuration(attack, inv, hp) ==
    Timer(attack.executeDuration, "toIdle", attack.id, inv, hp)

\* a mutant of executeTimer: the Telegraph -> Executing callback arms nothing
executeTimerNever(attack, inv, hp) == NoTimer

\* the three nested timeouts of startAttack
telegraphTimer(attack, inv, hp) ==
    Timer(attack.telegraphDuration, "toExecuting", attack.id, inv, hp)

executeTimer(attack, inv, hp) ==
    Timer(attack.executeDuration, "toRecovery", attack.id, inv, hp)

recoveryTimer(attack, inv, hp) ==
    Timer(attack.recoveryDuration, "toIdle", attack.id, inv, hp)

\* a mutant of startAttack: the current attack is not set
startAttackKeepsCurrentAttack(attack, inv, hp) ==
    /\ UNCHANGED currentAttack
    /\ phase' = TELEGRAPH
    /\ phaseElapsed' = 0
    /\ cycleElapsed' = 0
    /\ currentPhaseDuration' = attack.telegraphDuration
    /\ phaseTimer' = Timer(attack.telegraphDuration, "toExecuting", attack.id,
                           inv, hp)

\* a mutant of startAttack: a phase timeout that is pending stays armed
\* instead of the new telegraph timeout
startAttackKeepsPhaseTimer(attack, inv, hp) ==
    /\ currentAttack' = attack.id
    /\ phase' = TELEGRAPH
    /\ phaseElapsed' = 0
    /\ cycleElapsed' = 0
    /\ currentPhaseDuration' = attack.telegraphDuration
    /\ phaseTimer' = IF phaseTimer.armed THEN phaseTimer
                     ELSE telegraphTimer(attack, inv, hp)

\* startAttack(attack) of the render that captured inv and hp: it sets the
\* current attack, the phase and the two refs of the progress, and assigns
\* phaseTimerRef the telegraph timeout.  attackProgress is not reset.
startAttack(attack, inv, hp) ==
    /\ currentAttack' = attack.id
    /\ phase' = TELEGRAPH
    /\ phaseElapsed' = 0
    /\ cycleElapsed' = 0
    /\ currentPhaseDuration' = attack.telegraphDuration
    /\ phaseTimer' = telegraphTimer(attack, inv, hp)

\* the weights a scheduleNextAttack timeout computes whose render saw
\* health hp
weightsAt(hp) == attackWeights(getAttacksForBoss(bossLevel), hp, maxHP)

\* the weights the pending scheduleNextAttack timeout computes: healthPercent
\* is the one of the render that created its scheduleNextAttack
schedulerWeights == weightsAt(attackTimer.hp)

\* a timeout armed by scheduleNextAttack fires
AttackTimerFire ==
    \E t \in PendingTimers :
       /\ t.step = "attack" /\ t.rem = 0
       /\ LET attackPool == getAttacksForBoss(bossLevel)
              weights == weightsAt(t.hp)
              totalWeight == SumTo(weights, Len(weights))
          IN \E draw \in 0..(DrawsPerUnit * totalWeight - 1) :
                startAttack(selectRandomAttack(attackPool, weights, draw),
                            t.inv, t.hp)
       /\ attackTimer' = IF t = attackTimer THEN NoTimer ELSE attackTimer
       /\ strayTimers' = strayAfter(t, phaseTimer)
       /\ callback' = NoCallback
       /\ lastCall' = NoCall
       /\ UNCHANGED <<tally, delays, pick, custom, attackProgress, life, bossLevel, maxHP,
                      playerIsInvulnerable, currentHP, isHit, saInv, saHP,
                      hitChecks, flashTimers, bossDefeatedCalls, hitsInPhase,
                      calls>>

\* a telegraph timeout fires: enter executing, arm the hit check and the
\* execute timeout
ToExecuting ==
    \E t \in PendingTimers :
       /\ t.step = "toExecuting" /\ t.rem = 0
       /\ LET attack == registryLookup(t.attack)
          IN /\ phase' = EXECUTING
             /\ phaseElapsed' = 0
             /\ currentPhaseDuration' = attack.executeDuration
             /\ hitChecks' = hitChecks \cup
                   {[rem |-> hitCheckDelay(attack), attack |-> attack.id,
                     inv |-> t.inv]}
             /\ phaseTimer' = executeTimer(attack, t.inv, t.hp)
       /\ strayTimers' = strayAfter(t, phaseTimer)
       /\ hitsInPhase' = 0
       /\ callback' = NoCallback
       /\ lastCall' = NoCall
       /\ UNCHANGED <<tally, delays, pick, custom, attackProgress, life, bossLevel, maxHP,
                      playerIsInvulnerable, currentHP, currentAttack, isHit,
                      saInv, saHP, attackTimer, flashTimers, cycleElapsed,
                      bossDefeatedCalls, calls>>

\* an execute timeout fires: enter recovery, arm the recovery timeout.  A
\* hit check due at the same time was armed before it by the same callback
\* and fires first.
ToRecovery ==
    \E t \in PendingTimers :
       /\ t.step = "toRecovery" /\ t.rem = 0
       /\ \A h \in hitChecks : ~(h.rem = 0 /\ h.attack = t.attack)
       /\ LET attack == registryLookup(t.attack)
          IN /\ phase' = RECOVERY
             /\ phaseElapsed' = 0
             /\ currentPhaseDuration' = attack.recoveryDuration
             /\ phaseTimer' = recoveryTimer(attack, t.inv, t.hp)
       /\ strayTimers' = strayAfter(t, phaseTimer)
       /\ callback' = NoCallback
       /\ lastCall' = NoCall
       /\ UNCHANGED <<tally, delays, pick, custom, attackProgress, life, bossLevel, maxHP,
                      playerIsInvulnerable, currentHP, currentAttack, isHit,
                      saInv, saHP, attackTimer, hitChecks, flashTimers,
                      cycleElapsed, bossDefeatedCalls, hitsInPhase, calls>>

\* a recovery timeout fires: back to idle with no current attack and
\* progress 0, then scheduleNextAttack() of the render that created the
\* running startAttack
ToIdle ==
    \E t \in PendingTimers :
       /\ t.step = "toIdle" /\ t.rem = 0
       /\ phase' = IDLE
       /\ currentAttack' = "none"
       /\ attackProgress' = Fraction(0, 1)
       /\ phaseTimer' = IF t = phaseTimer THEN NoTimer ELSE phaseTimer
       /\ \E base \in BaseDelayDraws :
             IF t.hp <= 0
             THEN /\ UNCHANGED attackTimer
                  /\ strayTimers' = strayAfter(t, NoTimer)
             ELSE /\ attackTimer' = scheduleNextAttack(t.inv, t.hp, base)
                  /\ strayTimers' = strayAfter(t, attackTimer)
       /\ callback' = NoCallback
       /\ lastCall' = NoCall
       /\ UNCHANGED <<tally, delays, pick, custom, currentPhaseDuration, life, bossLevel,
                      maxHP, playerIsInvulnerable, currentHP, isHit, saInv,
                      saHP, hitChecks, flashTimers, phaseElapsed, cycleElapsed,
                      bossDefeatedCalls, hitsInPhase, calls>>

\* a hit check timeout fires
HitCheckFire ==
    \E h \in hitChecks :
        /\ h.rem = 0
        /\ hitChecks' = hitChecks \ {h}
        /\ IF ~h.inv
           THEN /\ callback' = [name |-> "onPlayerHit",
                                arg |-> registryLookup(h.attack).damage]
                /\ hitsInPhase' = Inc(hitsInPhase)
           ELSE /\ callback' = NoCallback
                /\ UNCHANGED hitsInPhase
        /\ lastCall' = NoCall
        /\ UNCHANGED <<tally, delays, pick, custom, strayTimers, attackProgress,
                   currentPhaseDuration,
                   life, bossLevel, maxHP, playerIsInvulnerable, currentHP,
                       phase, currentAttack, isHit, saInv, saHP, attackTimer,
                       phaseTimer, flashTimers, phaseElapsed, cycleElapsed,
                       bossDefeatedCalls, calls>>

\* the oldest isHit reset timeout fires; React drops a state update of an
\* unmounted component
FlashFire ==
    /\ flashTimers # << >>
    /\ Head(flashTimers) = 0
    /\ flashTimers' = Tail(flashTimers)
    /\ isHit' = IF life = "mounted" THEN FALSE ELSE isHit
    /\ callback' = NoCallback
    /\ lastCall' = NoCall
    /\ UNCHANGED <<tally, delays, pick, custom, strayTimers, attackProgress,
                   currentPhaseDuration,
                   life, bossLevel, maxHP, playerIsInvulnerable, currentHP,
                   phase, currentAttack, saInv, saHP, attackTimer, phaseTimer,
                   hitChecks, phaseElapsed, cycleElapsed, bossDefeatedCalls,
                   hitsInPhase, calls>>

\* a mutant of forceAttack: the call also restores full health
forceAttackResetsHealth(attackId) ==
    /\ life = "mounted"
    /\ calls < MaxCallsFromOutside
    /\ calls' = calls + 1
    /\ IF registryHas(attackId)
       THEN /\ attackTimer' = NoTimer
            /\ startAttack(registryLookup(attackId), saInv, saHP)
       ELSE UNCHANGED <<attackTimer, phaseTimer, currentAttack, phase,
                        phaseElapsed, cycleElapsed, currentPhaseDuration>>
    /\ currentHP' = maxHP
    /\ callback' = NoCallback
    /\ lastCall' = [op |-> "forceAttack", arg |-> attackId, amount |-> 0]
    /\ UNCHANGED <<tally, delays, pick, custom, strayTimers, attackProgress, life,
                   bossLevel, maxHP, playerIsInvulnerable,
                   isHit, saInv, saHP, hitChecks, flashTimers,
                   bossDefeatedCalls, hitsInPhase>>

\* a mutant of forceAttack: neither clearTimeout is made, so the timeouts
\* the refs held stay pending
forceAttackClearsNothing(attackId) ==
    /\ life = "mounted"
    /\ calls < MaxCallsFromOutside
    /\ calls' = calls + 1
    /\ IF registryHas(attackId)
       THEN /\ UNCHANGED attackTimer
            /\ startAttack(registryLookup(attackId), saInv, saHP)
            /\ strayTimers' = strayTimers \cup displaced(phaseTimer, NoTimer)
       ELSE UNCHANGED <<attackTimer, phaseTimer, currentAttack, phase,
                        phaseElapsed, cycleElapsed, currentPhaseDuration,
                        strayTimers>>
    /\ callback' = NoCallback
    /\ lastCall' = [op |-> "forceAttack", arg |-> attackId, amount |-> 0]
    /\ UNCHANGED <<tally, delays, pick, custom, attackProgress, life, bossLevel, maxHP,
                   playerIsInvulnerable, currentHP, isHit, saInv, saHP,
                   hitChecks, flashTimers, bossDefeatedCalls, hitsInPhase>>

\* a mutant of forceAttack: clearTimeout(attackTimerRef.current) is missing
forceAttackKeepsAttackTimer(attackId) ==
    /\ life = "mounted"
    /\ calls < MaxCallsFromOutside
    /\ calls' = calls + 1
    /\ IF registryHas(attackId)
       THEN /\ UNCHANGED attackTimer
            /\ startAttack(registryLookup(attackId), saInv, saHP)
       ELSE UNCHANGED <<attackTimer, phaseTimer, currentAttack, phase,
                        phaseElapsed, cycleElapsed, currentPhaseDuration>>
    /\ callback' = NoCallback
    /\ lastCall' = [op |-> "forceAttack", arg |-> attackId, amount |-> 0]
    /\ UNCHANGED <<tally, delays, pick, custom, strayTimers, attackProgress, life,
                   bossLevel, maxHP, playerIsInvulnerable, currentHP,
                   isHit, saInv, saHP, hitChecks, flashTimers,
                   bossDefeatedCalls, hitsInPhase>>

\* forceAttack(attackId), called on the latest render's forceAttack: the
\* timeouts the two refs hold are cleared, then startAttack
forceAttack(attackId) ==
    /\ life = "mounted"
    /\ calls < MaxCallsFromOutside
    /\ calls' = calls + 1
    /\ IF registryHas(attackId)
       THEN /\ attackTimer' = NoTimer
            /\ startAttack(registryLookup(attackId), saInv, saHP)
       ELSE UNCHANGED <<attackTimer, phaseTimer, currentAttack, phase,
                        phaseElapsed, cycleElapsed, currentPhaseDuration>>
    /\ callback' = NoCallback
    /\ lastCall' = [op |-> "forceAttack", arg |-> attackId, amount |-> 0]
    /\ UNCHANGED <<tally, delays, pick, custom, strayTimers, attackProgress, life,
                   bossLevel, maxHP, playerIsInvulnerable, currentHP,
                   isHit, saInv, saHP, hitChecks, flashTimers,
                   bossDefeatedCalls, hitsInPhase>>

\* a render tick: the useFrame callback of the latest render.  A duration
\* ref that holds undefined or 0 fails the > 0 test.
useFrame ==
    /\ life = "mounted"
    /\ IF phase # IDLE /\ currentPhaseDuration > 0
       THEN attackProgress' = Fraction(Min(phaseElapsed, currentPhaseDuration),
                                       currentPhaseDuration)
       ELSE UNCHANGED attackProgress
    /\ callback' = NoCallback
    /\ lastCall' = [op |-> "useFrame", arg |-> "none", amount |-> 0]
    /\ UNCHANGED <<tally, delays, pick, custom, strayTimers, currentPhaseDuration, life,
                   bossLevel, maxHP, playerIsInvulnerable, currentHP, phase,
                   currentAttack, isHit, saInv, saHP, attackTimer, phaseTimer,
                   hitChecks, flashTimers, phaseElapsed, cycleElapsed,
                   bossDefeatedCalls, hitsInPhase, calls>>

\* d milliseconds pass, d at most the time to the next due timeout
Tick ==
    /\ PendingRems # {}
    /\ LET gap == CHOOSE r \in PendingRems : \A s \in PendingRems : r <= s
       IN /\ gap > 0
          /\ attackTimer' = IF attackTimer.armed
                            THEN [attackTimer EXCEPT !.rem = @ - gap]
                            ELSE attackTimer
          /\ phaseTimer' = IF phaseTimer.armed
                           THEN [phaseTimer EXCEPT !.rem = @ - gap]
                           ELSE phaseTimer
          /\ strayTimers' = {[t EXCEPT !.rem = @ - gap] : t \in strayTimers}
          /\ hitChecks' = {[h EXCEPT !.rem = @ - gap] : h \in hitChecks}
          /\ flashTimers' = [i \in 1..Len(flashTimers) |-> flashTimers[i] - gap]
          /\ phaseElapsed' = IF phase # IDLE /\ life = "mounted"
                             THEN phaseElapsed + gap ELSE phaseElapsed
          /\ cycleElapsed' = IF phase # IDLE /\ life = "mounted"
                             THEN cycleElapsed + gap ELSE cycleElapsed
    /\ callback' = NoCallback
    /\ lastCall' = NoCall
    /\ UNCHANGED <<tally, delays, pick, custom, attackProgress, currentPhaseDuration, life,
                   bossLevel, maxHP, playerIsInvulnerable, currentHP, phase,
                   currentAttack, isHit, saInv, saHP, bossDefeatedCalls,
                   hitsInPhase, calls>>

Next ==
    \/ Mount
    \/ Unmount
    \/ \E inv \in BOOLEAN, newCb \in BOOLEAN : ParentRender(inv, newCb)
    \/ \E amount \in DamageAmounts : damageBoss(amount)
    \/ handleHit
    \/ \E attackId \in ForcedIds : forceAttack(attackId)
    \/ AttackTimerFire
    \/ ToExecuting
    \/ ToRecovery
    \/ ToIdle
    \/ HitCheckFire
    \/ FlashFire
    \/ Tick

Spec == Init /\ [][Next]_vars

\* the encounters of every boss level, with few calls from outside
NextCatalog ==
    \/ Mount
    \/ Unmount
    \/ calls < MaxCatalogCalls
          /\ \E inv \in BOOLEAN, newCb \in BOOLEAN : ParentRender(inv, newCb)
    \/ calls < MaxCatalogCalls
          /\ \E amount \in DamageAmounts : damageBoss(amount)
    \/ calls < MaxCatalogCalls /\ handleHit
    \/ calls < MaxCatalogCalls
          /\ \E attackId \in ForcedIds : forceAttack(attackId)
    \/ AttackTimerFire
    \/ ToExecuting
    \/ ToRecovery
    \/ ToIdle
    \/ HitCheckFire
    \/ FlashFire
    \/ Tick

SpecCatalog == InitCatalog /\ [][NextCatalog]_vars

\* the encounters with render ticks, with few calls from outside
NextFrames ==
    \/ Mount
    \/ Unmount
    \/ calls < MaxFrameCalls
          /\ \E inv \in BOOLEAN, newCb \in BOOLEAN : ParentRender(inv, newCb)
    \/ calls < MaxFrameCalls
          /\ \E amount \in DamageAmounts : damageBoss(amount)
    \/ calls < MaxFrameCalls /\ handleHit
    \/ calls < MaxFrameCalls
          /\ \E attackId \in ForcedIds : forceAttack(attackId)
    \/ useFrame
    \/ AttackTimerFire
    \/ ToExecuting
    \/ ToRecovery
    \/ ToIdle
    \/ HitCheckFire
    \/ FlashFire
    \/ Tick

SpecFrames == Init /\ [][NextFrames]_vars

\* the encounters that stay mounted, in which health stays above 0 and no
\* attack is forced
NextCycle ==
    \/ Mount
    \/ calls < MaxCycleCalls
          /\ \E inv \in BOOLEAN, newCb \in BOOLEAN : ParentRender(inv, newCb)
    \/ calls < MaxCycleCalls
          /\ \E amount \in DamageAmounts :
                newHP(currentHP, amount) > 0 /\ damageBoss(amount)
    \/ calls < MaxCycleCalls
          /\ (phase = RECOVERY => newHP(currentHP, WEAK_POINT_DAMAGE) > 0)
          /\ handleHit
    \/ AttackTimerFire
    \/ ToExecuting
    \/ ToRecovery
    \/ ToIdle
    \/ HitCheckFire
    \/ FlashFire
    \/ Tick

\* React runs the mount effect after the first commit, the event loop runs
\* every timeout that is due, and time passes
CycleFairness ==
    /\ WF_vars(Mount)
    /\ WF_vars(AttackTimerFire)
    /\ WF_vars(ToExecuting)
    /\ WF_vars(ToRecovery)
    /\ WF_vars(ToIdle)
    /\ WF_vars(HitCheckFire)
    /\ WF_vars(FlashFire)
    /\ WF_vars(Tick)

SpecCycle == Init /\ [][NextCycle]_vars /\ CycleFairness

\* the encounters in which damageBoss is called during telegraph phases only
\* and no attack is forced
NextTelegraphDamage ==
    \/ Mount
    \/ phase = TELEGRAPH /\ \E amount \in DamageAmounts : damageBoss(amount)
    \/ AttackTimerFire
    \/ ToExecuting
    \/ ToRecovery
    \/ ToIdle
    \/ HitCheckFire
    \/ FlashFire
    \/ Tick

SpecTelegraphDamage == Init /\ [][NextTelegraphDamage]_vars

----------------------------------------------------------------------------
(* The utility functions applied to inputs of their own *)

\* the pools selectRandomAttack is applied to: the common attacks, one
\* common and one unique attack in either order, and the pool of boss 1
SelectorPools ==
    <<COMMON_ATTACKS, <<COMMON_ATTACKS[1], UNIQUE_ATTACKS[1]>>,
      getAttacksForBoss(1), <<UNIQUE_ATTACKS[1], COMMON_ATTACKS[1]>>>>

\* the health values the functions are applied at: zero, half and full
HealthSamples == {0, maxHP \div 2, maxHP}

\* the weights of the pool being tallied, as scheduleNextAttack computes them
tallyWeights == attackWeights(SelectorPools[tally.pool], tally.hp, maxHP)

\* [0, totalWeight) is cut into CellsPerUnit cells per unit of weight
tallyCells ==
    CellsPerUnit * SumTo(tallyWeights, Len(tallyWeights))

InitFunctions ==
    /\ InitFor({1})
    /\ delays = << >>
    /\ pick = NoPick
    /\ custom = NoCustom
    /\ \E p \in 1..Len(SelectorPools), hp \in HealthSamples :
          tally = [pool |-> p, hp |-> hp, next |-> 0,
                   counts |-> [i \in 1..Len(SelectorPools[p]) |-> 0]]

\* selectRandomAttack(pool, weights) with Math.random() * totalWeight at the
\* middle of the next cell, (2 * next + 1) / (2 * CellsPerUnit); the attack
\* it returns is counted
TallyDraw ==
    /\ tally.next < tallyCells
    /\ LET pool == SelectorPools[tally.pool]
           picked == pool[selectWalkAt(pool, tallyWeights, 2 * tally.next + 1,
                                       2 * CellsPerUnit, 1)]
           i == CHOOSE j \in 1..Len(pool) : pool[j] = picked
       IN tally' = [tally EXCEPT !.next = @ + 1, !.counts[i] = @ + 1]
    /\ UNCHANGED <<hookVars, delays, pick, custom>>

\* calculateNextAttackDelay(hp / maxHP) with randFloat returning base
ApplyDelay ==
    /\ Len(delays) < MaxDelays
    /\ \E hp \in HealthSamples, base \in BaseDelayDraws :
          delays' = Append(delays,
                       [hp |-> hp, base |-> base,
                        delay |-> calculateNextAttackDelay(hp, maxHP, base)])
    /\ UNCHANGED <<hookVars, tally, pick, custom>>

NextFunctions ==
    \/ TallyDraw
    \/ ApplyDelay

SpecFunctions == InitFunctions /\ [][NextFunctions]_vars

\* the attack lists of the single selections: one attack, the two common
\* attacks, and the pool of boss 1
PickPools == <<<<COMMON_ATTACKS[1]>>, COMMON_ATTACKS, getAttacksForBoss(1)>>

\* the weight lists of the length of a list, zero weights included
WeightLists(n) == [1..n -> 0..MaxWeight]

InitSelect == InitFor({1}) /\ NoneApplied

\* selectRandomAttack(attacks, weights) with Math.random() * totalWeight =
\* draw / DrawsPerUnit.  The draws go one step beyond totalWeight, which
\* stands for a rounding residue that leaves random above 0 after the loop.
SelectAt ==
    /\ \E p \in 1..Len(PickPools) :
         \E weights \in WeightLists(Len(PickPools[p])) :
            LET totalWeight == SumTo(weights, Len(weights))
                top == IF totalWeight = 0 THEN 0
                       ELSE DrawsPerUnit * totalWeight + 1
            IN \E draw \in 0..top :
                  pick' = [pool |-> p, weights |-> weights, draw |-> draw,
                           index |-> selectWalk(PickPools[p], weights, draw, 1),
                           id |-> selectRandomAttack(PickPools[p], weights,
                                                     draw).id]
    /\ UNCHANGED <<hookVars, tally, delays, custom>>

NextSelect == SelectAt

SpecSelect == InitSelect /\ [][NextSelect]_vars

\* entries of UNIQUE_ATTACKS with the boss level edited
CustomEntries ==
    {[UNIQUE_ATTACKS[i] EXCEPT !.bossLevel = level] :
        i \in 1..MaxCustomEntries, level \in 1..MaxCustomLevel}

\* UNIQUE_ATTACKS tables of one or two entries with distinct ids
CustomTables ==
    {<<a>> : a \in CustomEntries}
       \cup {t \in CustomEntries \X CustomEntries : t[1].id # t[2].id}

\* the module is evaluated with another UNIQUE_ATTACKS table: the object
\* literals and ATTACK_REGISTRY are built, nothing inspects the boss levels
\* and nothing throws
BuildCatalog ==
    /\ ~custom.built
    /\ \E table \in CustomTables :
          custom' = [unique |-> table, built |-> TRUE, threw |-> FALSE,
                     level |-> 0, all |-> << >>]
    /\ UNCHANGED <<hookVars, tally, delays, pick>>

\* getAttacksForBoss(level) over the catalog that was built
LookupCustom ==
    /\ custom.built /\ ~custom.threw
    /\ \E level \in 1..(MaxCustomLevel + 1) :
          custom' = [custom EXCEPT
                        !.level = level,
                        !.all = getAttacksForBossIn(custom.unique, level)]
    /\ UNCHANGED <<hookVars, tally, delays, pick>>

NextBuild ==
    \/ BuildCatalog
    \/ LookupCustom

SpecBuild == InitSelect /\ [][NextBuild]_vars

----------------------------------------------------------------------------
(* Properties *)

\* the attack whose cycle is running
Cur == registryLookup(currentAttack)

\* a step in which a pending hit check timeout fired
HitCheckFired == Cardinality(hitChecks') < Cardinality(hitChecks)

\* C1: the boss-defeated callback is invoked on the damageBoss call that
\* first brings health to 0 and never again on a later damageBoss call made
\* while health is already 0.
C1_DefeatedOnce ==
    [][currentHP = 0 => callback'.name # "onBossDefeated"]_vars

\* C2: once health is 0 the scheduler never arms a new inter-attack delay:
\* no step taken at health 0 leaves an inter-attack timer armed that was not
\* armed before it.
C2_NoScheduleAfterDefeat ==
    [][(currentHP = 0 /\ ~attackTimer.armed) => ~attackTimer'.armed]_vars

\* C3: a forceAttack that leaves the executing phase while the damage check
\* of the running attack is pending cancels that damage check, and at most
\* one damage check is pending at any time.
C3_ForceCancelsHitCheck ==
    [][/\ (phase = EXECUTING /\ phase' = TELEGRAPH) => hitChecks' = {}
       /\ Cardinality(hitChecks') <= 1]_vars

\* C4: the damage check uses the value playerIsInvulnerable has when the
\* check fires: the player-hit callback is not invoked while the player is
\* invulnerable.
C4_FlagSampledAtFireTime ==
    callback.name = "onPlayerHit" => ~playerIsInvulnerable

\* C5: every attack of the catalog has positive durations, and a running
\* attack leaves telegraph for executing after exactly its telegraphDuration,
\* executing for recovery after exactly its executeDuration and recovery for
\* idle after exactly its recoveryDuration, the whole cycle taking the sum
\* of the three.
C5_PhaseDurations ==
    [][/\ \A i \in 1..Len(AllAttacks) :
             /\ AllAttacks[i].telegraphDuration > 0
             /\ AllAttacks[i].executeDuration > 0
             /\ AllAttacks[i].recoveryDuration > 0
       /\ (phase = TELEGRAPH /\ phase' = EXECUTING) =>
             /\ phaseElapsed = Cur.telegraphDuration
             /\ cycleElapsed = Cur.telegraphDuration
       /\ (phase = EXECUTING /\ phase' = RECOVERY) =>
             /\ phaseElapsed = Cur.executeDuration
             /\ cycleElapsed = Cur.telegraphDuration + Cur.executeDuration
       /\ (phase = RECOVERY /\ phase' = IDLE) =>
             /\ phaseElapsed = Cur.recoveryDuration
             /\ cycleElapsed = Cur.telegraphDuration + Cur.executeDuration
                                  + Cur.recoveryDuration]_vars

\* a cycle of stomp_shockwave has run from telegraph back to idle in
\* 1800 + 1200 + 1500 ms
C5_Witness ==
    /\ calls = 0
    /\ phase = IDLE
    /\ attackTimer.armed
    /\ phaseElapsed = 1500
    /\ cycleElapsed = 4500

\* C6: when the damage check of the running executing phase fires, the
\* player-hit callback is invoked with the damage of the attack in flight,
\* 0.3 x executeDuration after executing was entered and for the first time
\* in that phase if the player is not invulnerable, and is not invoked if
\* the player is invulnerable.
C6_HitOncePerExecuting ==
    [][(HitCheckFired /\ life = "mounted" /\ phase = EXECUTING) =>
          IF playerIsInvulnerable
          THEN callback'.name = "none" /\ hitsInPhase' = 0
          ELSE /\ callback' = [name |-> "onPlayerHit", arg |-> Cur.damage]
               /\ phaseElapsed = hitCheckDelay(Cur)
               /\ hitsInPhase' = 1]_vars

\* C7: damageBoss(amount) with amount >= 0 sets health to
\* max(0, health - amount) and so never increases it.
C7_DamageClamped ==
    [][(lastCall'.op = "damageBoss" /\ lastCall'.amount >= 0) =>
          /\ currentHP' = (IF currentHP - lastCall'.amount > 0
                           THEN currentHP - lastCall'.amount ELSE 0)
          /\ currentHP' <= currentHP]_vars

\* a damageBoss call larger than the health left has just been clamped to 0
C7_Witness ==
    /\ lastCall.op = "damageBoss"
    /\ lastCall.amount = 150
    /\ currentHP = 0
    /\ saHP = 50

\* C8: in every reachable state 0 <= current health <= max health.
C8_HealthInRange ==
    0 <= currentHP /\ currentHP <= maxHP

\* C9: every change of phase is idle -> telegraph, telegraph -> executing,
\* executing -> recovery or recovery -> idle, except that a forceAttack call
\* enters telegraph from any phase; the scheduler's timer is pending only in
\* idle, so a scheduled attack starts from idle only.
C9_PhaseTransitions ==
    [][/\ phase' # phase =>
             \/ phase = IDLE /\ phase' = TELEGRAPH
             \/ phase = TELEGRAPH /\ phase' = EXECUTING
             \/ phase = EXECUTING /\ phase' = RECOVERY
             \/ phase = RECOVERY /\ phase' = IDLE
             \/ lastCall'.op = "forceAttack" /\ phase' = TELEGRAPH
       /\ attackTimer.armed => phase = IDLE
       /\ (attackTimer.armed /\ ~attackTimer'.armed /\ life' = "mounted"
             /\ lastCall'.op # "forceAttack") =>
             phase = IDLE /\ phase' = TELEGRAPH]_vars

\* a forceAttack has interrupted an executing attack whose scheduler had
\* started it from idle
C9_Witness ==
    /\ lastCall.op = "forceAttack"
    /\ phase = TELEGRAPH
    /\ hitChecks # {}
    /\ calls = 1

\* C10: after teardown no timer armed by the encounter fires and no callback
\* is invoked.
C10_NoTimerAfterTeardown ==
    [][life = "unmounted" =>
          /\ ~HitCheckFired
          /\ Len(flashTimers') >= Len(flashTimers)
          /\ callback'.name = "none"]_vars

\* C11: forceAttack with an identifier that is not the id of an attack of the
\* catalog changes neither phase, current attack, health nor any pending
\* timer.
C11_UnknownIdNoOp ==
    [][(lastCall'.op = "forceAttack" /\ lastCall'.arg \notin AttackIds) =>
          UNCHANGED <<phase, currentAttack, currentHP, isHit, attackTimer,
                      phaseTimer, hitChecks, flashTimers, phaseElapsed>>]_vars

\* C12: the pool of a boss level holds every common attack, and exactly one
\* unique attack, the one of that level, if the catalog has one for the
\* level, and no unique attack otherwise.
C12_PoolOfBoss ==
    LET all == getAttacksForBoss(bossLevel)
        unique == {i \in 1..Len(all) : all[i].type = "unique"}
        registered == {i \in 1..Len(UNIQUE_ATTACKS) :
                          UNIQUE_ATTACKS[i].bossLevel = bossLevel}
    IN /\ \A i \in 1..Len(COMMON_ATTACKS) :
             \E j \in 1..Len(all) : all[j] = COMMON_ATTACKS[i]
       /\ Len(all) = Len(COMMON_ATTACKS) + Cardinality(unique)
       /\ registered # {} =>
             /\ Cardinality(unique) = 1
             /\ \A i \in unique : all[i].bossLevel = bossLevel
       /\ registered = {} => unique = {}

\* the scheduler picked the unique attack of boss 7 out of the pool
C12_Witness ==
    /\ calls = 0 /\ bossLevel = 7 /\ phase = TELEGRAPH
    /\ Cur.type = "unique" /\ Cur.bossLevel = 7

\* the scheduler picked an attack for boss 8, which has no unique attack
C12_WitnessNoUnique ==
    /\ calls = 0 /\ bossLevel = 8 /\ phase = TELEGRAPH
    /\ Len(getAttacksForBoss(bossLevel)) = Len(COMMON_ATTACKS)

\* C13: when the scheduler picks the next attack the weights it uses are
\* those of the boss's health at that moment: the unique attack has weight 2
\* exactly if health is below half of max health, every other weight is 1.
\* Stated for the picks made while health is above 0 and at most max health.
C13_WeightsFromCurrentHealth ==
    [][(attackTimer.armed /\ attackTimer.rem = 0 /\ ~attackTimer'.armed
        /\ phase' = TELEGRAPH /\ lastCall'.op = "none"
        /\ 0 < currentHP /\ currentHP <= maxHP) =>
          LET pool == getAttacksForBoss(bossLevel)
          IN \A i \in 1..Len(pool) :
                schedulerWeights[i] =
                    IF pool[i].type = "unique" /\ 2 * currentHP < maxHP
                    THEN 2 ELSE 1]_vars

\* C17: a hit on a weak point changes health only in the recovery phase: in
\* idle, telegraph and executing it leaves health and the just-damaged flag
\* as they were, and in recovery it applies the fixed damage of 50.
C17_WeakPointOnlyInRecovery ==
    [][lastCall'.op = "handleHit" =>
          IF phase = RECOVERY
          THEN currentHP' = Max(0, currentHP - 50) /\ isHit'
          ELSE UNCHANGED <<currentHP, isHit>>]_vars

\* a weak point was hit in recovery at full health
C17_Witness ==
    /\ lastCall.op = "handleHit" /\ phase = RECOVERY /\ calls = 1
    /\ currentHP = maxHP - 50 /\ isHit

\* a weak point was hit during the executing phase
C17_WitnessNotVulnerable ==
    /\ lastCall.op = "handleHit" /\ phase = EXECUTING /\ calls = 1
    /\ currentHP = maxHP /\ ~isHit

\* C18: forceAttack with the id of an attack of the catalog, in any phase,
\* puts the machine in telegraph with that attack at once, and no phase
\* timeout of the abandoned attack fires afterwards: every later change of
\* phase by a timeout is the one of the current attack, after that attack's
\* own duration of the phase.
C18_ForceInterrupts ==
    [][/\ (lastCall'.op = "forceAttack" /\ lastCall'.arg \in AttackIds) =>
             /\ phase' = TELEGRAPH
             /\ currentAttack' = lastCall'.arg
             /\ phaseElapsed' = 0
             /\ ~attackTimer'.armed
             /\ phaseTimer'.armed
             /\ phaseTimer'.step = "toExecuting"
             /\ phaseTimer'.attack = lastCall'.arg
             /\ phaseTimer'.rem = ATTACK_REGISTRY[lastCall'.arg].telegraphDuration
       /\ (phase' # phase /\ phase # IDLE /\ lastCall'.op # "forceAttack") =>
             /\ phaseTimer.attack = currentAttack
             /\ phaseElapsed = CASE phase = TELEGRAPH -> Cur.telegraphDuration
                                 [] phase = EXECUTING -> Cur.executeDuration
                                 [] phase = RECOVERY -> Cur.recoveryDuration]_vars

\* forceAttack("solar_flare") has interrupted missile_barrage in its
\* executing phase, before its hit check
C18_Witness ==
    /\ lastCall.op = "forceAttack" /\ lastCall.arg = "solar_flare"
    /\ phase = TELEGRAPH /\ currentAttack = "solar_flare"
    /\ \E h \in hitChecks : h.attack = "missile_barrage" /\ h.rem > 0

\* a forced solar_flare has left telegraph for executing after an earlier
\* forced attack was abandoned
C18_WitnessNextTransition ==
    /\ calls = 2 /\ lastCall.op = "none" /\ bossLevel = 8
    /\ phase = EXECUTING /\ currentAttack = "solar_flare" /\ phaseElapsed = 0
    /\ cycleElapsed = ATTACK_REGISTRY["solar_flare"].telegraphDuration

\* C19: every inter-attack delay the scheduler arms is computed from the
\* boss's health at the moment of arming: it is one of the delays
\* calculateNextAttackDelay gives for current health.  Stated for the delays
\* armed while health is above 0 and at most max health.
C19_DelayFromCurrentHealth ==
    [][(~attackTimer.armed /\ attackTimer'.armed
        /\ 0 < currentHP /\ currentHP <= maxHP) =>
          \E base \in BaseDelayDraws :
             attackTimer'.rem = calculateNextAttackDelay(currentHP, maxHP, base)]_vars

\* C20: when the recovery timeout fires with health above 0 the machine
\* enters idle with no current attack and, in the same step, one new
\* inter-attack timer is armed.
C20_IdleArmsNextDelay ==
    [][(phase = RECOVERY /\ phase' = IDLE /\ currentHP > 0) =>
          /\ currentAttack' = "none"
          /\ ~phaseTimer'.armed
          /\ ~attackTimer.armed /\ attackTimer'.armed]_vars

\* C14: over a uniform draw from [0, totalWeight) selectRandomAttack returns
\* each attack for the share weight / totalWeight of the draws: once every
\* cell of the range has been drawn, each attack has been returned for
\* CellsPerUnit x its weight of them; with weights [1, 1] each attack for half
\* of the cells, with one common and one unique attack of weights [1, 2] the
\* unique attack for two thirds.
C14_SelectionFrequency ==
    tally.next = tallyCells =>
       LET totalWeight == SumTo(tallyWeights, Len(tallyWeights))
       IN /\ \A i \in 1..Len(tallyWeights) :
                tally.counts[i] * totalWeight = tallyWeights[i] * tallyCells
          /\ tallyWeights = <<1, 1>> =>
                \A i \in 1..2 : 2 * tally.counts[i] = tallyCells
          /\ tallyWeights = <<1, 2>> => 3 * tally.counts[2] = 2 * tallyCells
          /\ tallyWeights = <<2, 1>> => 3 * tally.counts[1] = 2 * tallyCells

\* every cell of the pool of one common and one unique attack has been drawn
\* at health below half: the unique attack was returned twice as often
C14_Witness ==
    /\ tally.pool = 2 /\ 2 * tally.hp < maxHP
    /\ tally.next = tallyCells /\ tally.next = 3 * CellsPerUnit
    /\ tally.counts = <<CellsPerUnit, 2 * CellsPerUnit>>

\* every cell of the pool of the two common attacks has been drawn
C14_WitnessEqualWeights ==
    /\ tally.pool = 1 /\ tally.next = tallyCells
    /\ tally.counts = <<CellsPerUnit, CellsPerUnit>>

\* C15: the inter-attack delay is the base delay x 1.0 at full health and
\* the base delay x 0.7 at zero health.
C15_DelayMultiplier ==
    \A i \in 1..Len(delays) :
       /\ delays[i].hp = maxHP => delays[i].delay = delays[i].base
       /\ delays[i].hp = 0 => 10 * delays[i].delay = 7 * delays[i].base

\* C16: for the same base delay, the delay computed at a lower health is
\* never longer than the delay computed at a higher health.
C16_FasterAtLowerHealth ==
    \A i, j \in 1..Len(delays) :
       (delays[i].base = delays[j].base /\ delays[i].hp < delays[j].hp) =>
          delays[i].delay <= delays[j].delay

\* C21: in every reachable state at most one inter-attack timeout and at
\* most one phase timeout are pending.
C21_OneTimerPerCategory ==
    /\ Cardinality({t \in PendingTimers : t.step = "attack"}) <= 1
    /\ Cardinality({t \in PendingTimers : t.step # "attack"}) <= 1

\* a forceAttack has interrupted the executing phase of an earlier forced
\* attack: the telegraph timeout of the new attack is the only one pending
C21_Witness ==
    /\ lastCall.op = "forceAttack" /\ lastCall.arg = "missile_barrage"
    /\ calls = 2 /\ phase = TELEGRAPH /\ cycleElapsed = 0
    /\ PendingTimers = {phaseTimer}
    /\ phaseTimer.rem = ATTACK_REGISTRY["missile_barrage"].telegraphDuration
    /\ \E h \in hitChecks : h.attack = "solar_flare"

\* C22: while the encounter is mounted and health is above 0, one
\* phase-advancing timeout is pending: an inter-attack timeout and no phase
\* timeout in idle, a phase timeout and no inter-attack timeout in telegraph,
\* executing and recovery.  Stated for health at most max health.
C22_AlwaysOnePending ==
    (life = "mounted" /\ 0 < currentHP /\ currentHP <= maxHP) =>
       /\ Cardinality(PendingTimers) = 1
       /\ \A t \in PendingTimers : (t.step = "attack") <=> (phase = IDLE)

\* C23: the player-hit callback is invoked only while the phase is executing
\* and only with the damage of the attack in flight.  Stated for the hits of
\* the attacks of the catalog, whose damage is above 0.
C23_HitOnlyWhileExecuting ==
    (callback.name = "onPlayerHit" /\ callback.arg > 0) =>
       /\ phase = EXECUTING
       /\ callback.arg = Cur.damage

\* C24: when damageBoss calls made during telegraph have driven health to 0,
\* the telegraph timeout that fires later does not lead to a damage check
\* that invokes the player-hit callback: no step taken at health 0 invokes
\* it.
C24_NoHitAfterDefeatInTelegraph ==
    [][currentHP = 0 => callback'.name # "onPlayerHit"]_vars

\* C25: attackProgress is 0 right after every phase entry: after every
\* change of phase, and after a forceAttack that enters telegraph.
C25_ProgressResetAtPhaseEntry ==
    [][(\/ phase' # phase
        \/ lastCall'.op = "forceAttack" /\ lastCall'.arg \in AttackIds) =>
          attackProgress'.num = 0]_vars

\* the duration of the phase the attack is in, as its definition gives it
phaseDurationOf(attack, ph) ==
    CASE ph = TELEGRAPH -> attack.telegraphDuration
      [] ph = EXECUTING -> attack.executeDuration
      [] ph = RECOVERY  -> attack.recoveryDuration
      [] OTHER          -> 0

\* C26: attackProgress lies in [0, 1] in every state.
C26_ProgressInUnitInterval ==
    /\ attackProgress.den > 0
    /\ 0 <= attackProgress.num
    /\ attackProgress.num <= attackProgress.den

\* C26: a render tick outside Idle sets attackProgress to
\* min(1, elapsed / duration of the current phase of the current attack); a
\* render tick in Idle leaves it unchanged.
C26_TickSetsProgress ==
    [][lastCall'.op = "useFrame" =>
         IF phase = IDLE
         THEN attackProgress' = attackProgress
         ELSE LET d == phaseDurationOf(Cur, phase)
              IN  /\ d > 0
                  /\ attackProgress' = Fraction(Min(phaseElapsed, d), d)]_vars

\* C27: while the flash duration since some damageBoss call has not
\* elapsed, isHit is set.
C27_FlashLastsFullDuration ==
    (life = "mounted" /\ \E i \in 1..Len(flashTimers) : flashTimers[i] > 0) =>
       isHit

\* C28: a damageBoss call changes health at once, to max(0, health - amount),
\* and leaves the phase, the current attack, the progress and every pending
\* phase, hit check and attack timeout as they were.
C28_DamageLeavesAttackAlone ==
    [][lastCall'.op = "damageBoss" =>
         /\ currentHP' = Max(0, currentHP - lastCall'.amount)
         /\ UNCHANGED <<phase, currentAttack, attackProgress, attackTimer,
                        phaseTimer, strayTimers, hitChecks,
                        currentPhaseDuration, phaseElapsed>>]_vars

\* damageBoss(50) has been called in the executing phase, part of the way
\* through it, with the hit check and the phase timeout pending
C28_Witness ==
    /\ lastCall.op = "damageBoss" /\ lastCall.amount = 50
    /\ phase = EXECUTING
    /\ currentHP = maxHP - 50
    /\ attackProgress.num > 0
    /\ hitChecks # {}
    /\ phaseTimer.armed /\ phaseTimer.rem > 0

\* damageBoss has been called in the idle phase with the attack timeout
\* pending, and in the telegraph and recovery phases
C28_WitnessIdle ==
    /\ lastCall.op = "damageBoss" /\ lastCall.amount = 50
    /\ phase = IDLE /\ attackTimer.armed /\ currentHP = maxHP - 50

C28_WitnessTelegraph ==
    /\ lastCall.op = "damageBoss" /\ lastCall.amount = 150
    /\ phase = TELEGRAPH /\ phaseTimer.armed /\ currentHP = 0

C28_WitnessRecovery ==
    /\ lastCall.op = "damageBoss" /\ lastCall.amount = 50
    /\ phase = RECOVERY /\ phaseTimer.armed /\ attackProgress.num > 0

\* the step a phase timeout armed in phase ph makes
stepOfPhase(ph) ==
    CASE ph = TELEGRAPH -> "toExecuting"
      [] ph = EXECUTING -> "toRecovery"
      [] ph = RECOVERY  -> "toIdle"
      [] OTHER          -> "none"

C30_EncounterStart ==
    [][/\ life = "created" =>
             /\ phase = IDLE /\ currentAttack = "none"
             /\ attackProgress.num = 0 /\ ~isHit
             /\ currentHP = maxHP
             /\ PendingTimers = {} /\ hitChecks = {} /\ flashTimers = << >>
       /\ (life = "created" /\ life' = "mounted") =>
             /\ Cardinality(PendingTimers') = 1
             /\ \A t \in PendingTimers' :
                   /\ t.step = "attack"
                   /\ \E base \in BaseDelayDraws :
                         t.rem = calculateNextAttackDelay(maxHP, maxHP, base)
             /\ hitChecks' = {}
             /\ UNCHANGED <<phase, currentAttack, attackProgress, isHit,
                            currentHP>>]_vars

\* the first attack has begun with no call from outside since the mount
C30_Witness ==
    /\ life = "mounted"
    /\ calls = 0
    /\ phase = TELEGRAPH
    /\ currentAttack \in AttackIds
    /\ phaseElapsed = 0

\* C31: in an encounter that stays mounted, whose health stays above 0 and
\* in which no attack is forced, the machine enters telegraph again and
\* again, and every attack that has started returns to idle.
C31_CycleNeverStops ==
    /\ []<>(phase = TELEGRAPH)
    /\ (phase # IDLE) ~> (phase = IDLE)

\* a second attack of the cycle is in telegraph after damage that left the
\* boss alive
C31_Witness ==
    /\ life = "mounted"
    /\ phase = TELEGRAPH
    /\ calls = MaxCycleCalls
    /\ 0 < currentHP /\ currentHP < maxHP
    /\ hitsInPhase > 0

\* the attack list, the total weight and the cumulative weights of the
\* latest single selection
pickAttacks == PickPools[pick.pool]

pickTotal == SumTo(pick.weights, Len(pick.weights))

\* C32: for positive weights and a draw r in [0, totalWeight),
\* selectRandomAttack returns the first attack in list order whose cumulative
\* weight is strictly greater than r.
C32_FirstCumulativeAbove ==
    (/\ pick.pool # 0
     /\ \A i \in 1..Len(pick.weights) : pick.weights[i] > 0
     /\ pick.draw < DrawsPerUnit * pickTotal) =>
       /\ DrawsPerUnit * SumTo(pick.weights, pick.index) > pick.draw
       /\ \A j \in 1..(pick.index - 1) :
             DrawsPerUnit * SumTo(pick.weights, j) <= pick.draw

\* C33: selectRandomAttack returns an attack of the list for every weight
\* list and every draw: the last one if the loop selects none, and the only
\* one of a list of one attack whatever its weight.
C33_AlwaysAnAttackOfTheList ==
    pick.pool # 0 =>
       /\ pick.index \in 1..Len(pickAttacks)
       /\ pick.id = pickAttacks[pick.index].id
       /\ (\A i \in 1..Len(pickAttacks) :
              pick.draw > DrawsPerUnit * SumTo(pick.weights, i)) =>
             pick.index = Len(pickAttacks)
       /\ Len(pickAttacks) = 1 => pick.id = pickAttacks[1].id

\* the loop selected none of three attacks and the last one was returned
C33_Witness ==
    /\ pick.pool = 3
    /\ pick.draw > DrawsPerUnit * pickTotal
    /\ pick.index = 3
    /\ pick.id = getAttacksForBoss(1)[3].id

\* the only attack of a list was returned although its weight is 0
C33_WitnessSingle ==
    /\ pick.pool = 1 /\ pick.weights = <<0>> /\ pick.id = COMMON_ATTACKS[1].id

\* C34: an attack that becomes the current attack by a step other than
\* forceAttack is a common attack or the unique attack of the encounter's
\* boss level.
C34_ScheduledFromOwnPool ==
    [][(currentAttack' # "none" /\ currentAttack' # currentAttack
        /\ lastCall'.op # "forceAttack") =>
          LET started == registryLookup(currentAttack')
          IN  /\ currentAttack' \in AttackIds
              /\ \/ started.type = "common"
                 \/ started.type = "unique" /\ started.bossLevel = bossLevel]_vars

\* the scheduler started the unique attack of boss 3 in an encounter of
\* boss 3
C34_Witness ==
    /\ bossLevel = 3 /\ calls = 0 /\ phase = TELEGRAPH /\ phaseElapsed = 0
    /\ Cur.type = "unique" /\ Cur.bossLevel = 3

\* the unique attack of another boss level is current after forceAttack
C34_WitnessForced ==
    /\ lastCall.op = "forceAttack" /\ currentAttack = lastCall.arg
    /\ Cur.type = "unique" /\ Cur.bossLevel # bossLevel

\* C35: scheduleNextAttack invoked at the end of a recovery phase while
\* health is 0 arms no timeout: the pending inter-attack timeouts after the
\* step were pending before it.
C35_SchedulerNoOpAtZero ==
    [][(currentHP = 0 /\ phase = RECOVERY /\ phase' = IDLE) =>
          {t \in PendingTimers' : t.step = "attack"} \subseteq PendingTimers]_vars

\* C36: the catalog holds 9 attacks with pairwise distinct ids, 2 common
\* ones without a boss level and 7 unique ones whose boss levels are exactly
\* 1..7, each once; every level 1..7 has 3 attacks available; the registry
\* maps each of the 9 ids to its definition.  (The catalog is never assigned
\* to: it is the same in every state.)
C36_Catalog ==
    /\ Len(AllAttacks) = 9
    /\ Cardinality(AttackIds) = 9
    /\ Len(COMMON_ATTACKS) = 2
    /\ \A i \in 1..Len(COMMON_ATTACKS) :
          COMMON_ATTACKS[i].type = "common" /\ COMMON_ATTACKS[i].bossLevel = 0
    /\ Len(UNIQUE_ATTACKS) = 7
    /\ \A i \in 1..Len(UNIQUE_ATTACKS) : UNIQUE_ATTACKS[i].type = "unique"
    /\ {UNIQUE_ATTACKS[i].bossLevel : i \in 1..Len(UNIQUE_ATTACKS)} = 1..7
    /\ \A i, j \in 1..Len(UNIQUE_ATTACKS) :
          UNIQUE_ATTACKS[i].bossLevel = UNIQUE_ATTACKS[j].bossLevel => i = j
    /\ \A level \in 1..7 :
          LET all == getAttacksForBoss(level)
          IN  /\ Len(all) = 3
              /\ \A i, j \in 1..Len(all) : all[i] = all[j] => i = j
    /\ DOMAIN ATTACK_REGISTRY = AttackIds
    /\ \A i \in 1..Len(AllAttacks) :
          ATTACK_REGISTRY[AllAttacks[i].id] = AllAttacks[i]
    /\ currentAttack \in AttackIds => Cur = ATTACK_REGISTRY[currentAttack]

\* an encounter of boss 7 has run its unique attack, one of its 3 attacks,
\* up to the recovery phase
C36_Witness ==
    /\ bossLevel = 7 /\ phase = RECOVERY
    /\ Cur = UNIQUE_ATTACKS[7]
    /\ Len(getAttacksForBoss(bossLevel)) = 3

\* two entries of the table that was built have the same boss level
duplicateLevel ==
    \E i, j \in 1..Len(custom.unique) :
       i # j /\ custom.unique[i].bossLevel = custom.unique[j].bossLevel

\* C37: a catalog with two unique attacks of the same boss level is rejected
\* when it is built, and getAttacksForBoss never answers from it.
C37_DuplicateLevelRejected ==
    (custom.built /\ duplicateLevel) => (custom.threw /\ custom.level = 0)

C39_ForceFrameAndTimers ==
    [][(lastCall'.op = "forceAttack" /\ lastCall'.arg \in AttackIds) =>
          /\ UNCHANGED <<currentHP, maxHP, isHit>>
          /\ PendingTimers' = {phaseTimer'}
          /\ phaseTimer'.armed
          /\ phaseTimer'.step = "toExecuting"
          /\ phaseTimer'.attack = lastCall'.arg
          /\ phaseTimer'.rem = ATTACK_REGISTRY[lastCall'.arg].telegraphDuration
          /\ ~attackTimer'.armed]_vars

\* a damaged, flashing boss has been forced into solar_flare while an
\* inter-attack delay was pending: health and the flash are as they were and
\* only the telegraph timeout is pending
C39_Witness ==
    /\ lastCall.op = "forceAttack" /\ lastCall.arg = "solar_flare"
    /\ currentHP = maxHP - 50 /\ isHit
    /\ phase = TELEGRAPH /\ cycleElapsed = 0
    /\ PendingTimers = {phaseTimer}
    /\ phaseTimer.rem = ATTACK_REGISTRY["solar_flare"].telegraphDuration

====
